---- MODULE Spec2Model ----
(***************************************************************************)
(* Wallet synchronization core of cryptopower: the BTC asset's staged      *)
(* start-up (connect / startWallet) with its bail-out closures, the        *)
(* network-cancel callback (SafelyCancelSync), and the selectors' use of   *)
(* the per-wallet notification hub (ListenForTxNotifications).             *)
(*                                                                         *)
(* The notification hub itself (Add/RemoveTxAndBlockNotificationListener)  *)
(* lives in libwallet; it is modelled from section 4.3 of the              *)
(* specification.  The externally visible sync-state of section 4.2 is not *)
(* a field of BTCAsset; SyncState below reads it off the asset's fields.   *)
(***************************************************************************)
EXTENDS Integers, Sequences, FiniteSets, TLC

\* ---------------------------------------------------------------- bounds
MaxStarts == 2      \* connect calls explored (caps handle allocation)
MaxChans  == 2      \* listener objects (channels) ever created
MaxEvents == 3      \* notification events the backend produces
ChanCap   == 2      \* queue depth of one subscriber channel
MaxFetches == 2     \* FetchPolicies calls explored
MaxAccounts == 2    \* accounts of a wallet

Nil == 0

Callers    == {"c1", "c2"}
MainCaller == "c1"
Selectors  == {"s1", "s2"}
\* Every instance of one selector type registers under the same constant ID:
\* a WalletSelector under AccoutSelectorID, a WalletAndAccountSelector under
\* WalletAndAccountSelectorID.
AccoutSelectorID == "AccoutSelectorID"
WalletAndAccountSelectorID == "WalletAndAccountSelector"
SubscriberIDs == {AccoutSelectorID, WalletAndAccountSelectorID}
HandleIds == 1..MaxStarts
FetchIds  == 1..MaxFetches
AccountNums == 1..MaxAccounts
\* wire.BitcoinNet values: the four the switch names and any other
NetKinds  == {"MainNet", "TestNet3", "TestNet", "SimNet", "Other"}
\* the wallets the selector modal lists
Wallets   == {"w1", "w2"}
DefaultWallet == "w1"
\* var addPeers, connectPeers []string before the switch is reached
NoPeers   == [set |-> FALSE, cfg |-> [addPeers |-> <<>>, connectPeers |-> <<>>]]
\* the selector whose account selection is followed
PickSel   == "s2"
ChanIds   == 1..MaxChans

VARIABLES
    \* BTCAsset fields
    neutrinoDB,     \* asset.neutrinoDB : Nil or a database handle
    cl,             \* asset.cl         : Nil or a chain service
    chainClient,    \* asset.chainClient: Nil or a neutrino client (id of its chain service)
    \* resources behind the handles
    walletOpen,     \* the shared wallet was opened by OpenWallet
    dbs,            \* database handle -> [st, closes]
    css,            \* chain service   -> [st, stops]
    syncRPC,        \* client handed to SynchronizeRPC (the running sync session)
    wg,             \* the caller's sync.WaitGroup counter
    \* one activation of connect/startWallet or SafelyCancelSync per caller
    pc, chainService, err, ret, entry, acq, rel,
    starts,
    panicked,       \* an unrecovered Go panic ended the process
    \* notification hub (per wallet)
    registry,       \* set of subscriber records [id, ch, active]
    chans,          \* channel -> [st, buf, hubCloses, subCloses]
    hubRet,         \* result of the last hub call
    produced,       \* events produced by the backend so far
    log,            \* channel -> [due, dropped, recvd]: events dispatched to it,
                    \* dropped from its queue, received from it (in order)
    \* selectors
    selKind,        \* the selector's type (fixed at construction)
    listener,       \* ws.TxAndBlockNotificationListener : Nil or its channel
    gpc,            \* position of the selector's consumer goroutine
    ctxDone,        \* the context captured by the consumer goroutine is cancelled
    query,          \* the selector's last facade query: [op, st, err, read]
    \* network and peers
    net,            \* asset.chainParams.Net
    peers,          \* per activation: the AddPeers / ConnectPeers handed to neutrino
    \* treasury page
    pageCtx,        \* pg.ctx: "none", "live" or "cancelled"
    isPolicyFetchInProgress,
    treasuryItems,  \* Nil, or the fetch whose result is displayed
    fetches,        \* fetch goroutine -> [st, live]
    voting,         \* the goroutine of updatePolicyPreference is running
    reload,         \* a window reload is requested
    timer,          \* a time.AfterFunc reload timer is armed
    \* account selection of one selector
    selectedWallet, selectedAccount, accountSelector,
    accountIsValid, \* the validator, as the set of account numbers it accepts
    accountCallback,\* an account callback is set
    changed,        \* ws.changed
    dirty,          \* a selection since the last Changed call changed wallet or account number
    pick            \* the last selector call: [op, err, calls, list, ret]

assetVars == <<neutrinoDB, cl, chainClient, walletOpen, dbs, css, syncRPC, wg>>
callVars  == <<pc, chainService, err, ret, entry, acq, rel, starts, peers>>
hubVars   == <<registry, chans, hubRet, produced, log>>
selVars   == <<selKind, listener, gpc, ctxDone, query>>
pageVars  == <<pageCtx, isPolicyFetchInProgress, treasuryItems, fetches, voting, reload, timer>>
pickVars  == <<selectedWallet, selectedAccount, accountSelector, accountIsValid,
               accountCallback, changed, dirty, pick>>
restVars  == <<net, pageVars, pickVars>>
vars      == <<assetVars, callVars, panicked, hubVars, selVars, restVars>>

\* ------------------------------------------------------------ sync-state
\* Section 4.2's per-wallet state, read off the asset: a client handed to
\* SynchronizeRPC is a running session; an activation inside startWallet
\* is an open in progress.
SyncState ==
    IF syncRPC # Nil THEN "Syncing"
    ELSE IF \E c \in Callers : pc[c] # "idle" THEN "Opening"
    ELSE "Disconnected"

\* The error kinds of section 7 for the errors startWallet returns.
ErrKind(e) ==
    CASE e = "ErrOpenDB"       -> "StorageUnavailable"
      [] e = "ErrChainService" -> "NetworkInitFailed"
      [] e = "ErrClientStart"  -> "NetworkInitFailed"
      [] OTHER                 -> e

\* ------------------------------------------------------------------ Init
InitCore ==
    /\ neutrinoDB = Nil /\ cl = Nil /\ chainClient = Nil
    /\ walletOpen = FALSE
    /\ dbs = [h \in HandleIds |-> [st |-> "free", closes |-> 0]]
    /\ css = [h \in HandleIds |-> [st |-> "free", stops |-> 0]]
    /\ syncRPC = Nil
    /\ wg = 0
    /\ pc = [c \in Callers |-> "idle"]
    /\ chainService = [c \in Callers |-> Nil]
    /\ err = [c \in Callers |-> "nil"]
    /\ ret = [c \in Callers |-> [op |-> "none", err |-> "nil"]]
    /\ entry = [c \in Callers |-> "Disconnected"]
    /\ acq = [c \in Callers |-> <<>>]
    /\ rel = [c \in Callers |-> <<>>]
    /\ starts = 0
    /\ panicked = FALSE
    /\ registry = {}
    /\ chans = [k \in ChanIds |-> [st |-> "free", buf |-> <<>>, hubCloses |-> 0, subCloses |-> 0]]
    /\ hubRet = [op |-> "none", id |-> "", err |-> "nil"]
    /\ produced = 0
    /\ log = [k \in ChanIds |-> [due |-> {}, dropped |-> {}, recvd |-> <<>>]]
    /\ \E k \in {"WalletSelector", "WalletAndAccountSelector"} :
          selKind = [s \in Selectors |-> IF s = "s1" THEN "WalletSelector" ELSE k]
    /\ listener = [s \in Selectors |-> Nil]
    /\ gpc = [s \in Selectors |-> "none"]
    /\ ctxDone = [s \in Selectors |-> FALSE]
    /\ query = [op |-> "none", st |-> "Disconnected", err |-> "nil", read |-> "none"]
    /\ peers = [c \in Callers |-> NoPeers]
    /\ pageCtx = "none"
    /\ isPolicyFetchInProgress = FALSE
    /\ treasuryItems = Nil
    /\ fetches = [f \in FetchIds |-> [st |-> "idle", live |-> FALSE]]
    /\ voting = FALSE
    /\ reload = FALSE
    /\ timer = FALSE
    /\ selectedWallet = DefaultWallet
    /\ selectedAccount = Nil
    /\ accountSelector = FALSE
    /\ accountIsValid = (IF selKind[PickSel] = "WalletSelector" THEN AccountNums ELSE {})
    /\ accountCallback = FALSE
    /\ changed = FALSE
    /\ dirty = FALSE
    /\ pick = [op |-> "none", err |-> "nil", calls |-> <<>>, list |-> <<>>, ret |-> FALSE]

\* The asset of the lifecycle specifications is a main-network wallet.
Init == InitCore /\ net = "MainNet"

\* The asset may be of any network.
InitAnyNet == InitCore /\ net \in NetKinds

\* ------------------------------------------------- connect / startWallet
FreeDb == {h \in HandleIds : dbs[h].st = "free"}
FreeCs == {h \in HandleIds : css[h].st = "free"}
Least(S) == CHOOSE x \in S : \A y \in S : x <= y
\* walletdb.Open takes the bdb file lock: it cannot succeed while another
\* handle on the same path is open.
DbLockFree == \A h \in HandleIds : dbs[h].st # "open"

\* return from connect/startWallet with error e
ReturnStart(c, e) ==
    /\ ret' = [ret EXCEPT ![c] = [op |-> "Start", err |-> e]]
    /\ pc' = [pc EXCEPT ![c] = "idle"]

\* connect: logNeutrino, then enter startWallet
connect(c) ==
    /\ ~panicked /\ pc[c] = "idle" /\ starts < MaxStarts
    /\ starts' = starts + 1
    /\ entry' = [entry EXCEPT ![c] = SyncState]
    /\ acq' = [acq EXCEPT ![c] = <<>>]
    /\ rel' = [rel EXCEPT ![c] = <<>>]
    /\ chainService' = [chainService EXCEPT ![c] = Nil]
    /\ err' = [err EXCEPT ![c] = "nil"]
    /\ peers' = [peers EXCEPT ![c] = NoPeers]
    /\ \E ok \in BOOLEAN :
          IF ok THEN /\ pc' = [pc EXCEPT ![c] = "WalletExists"]
                     /\ ret' = [ret EXCEPT ![c] = [op |-> "none", err |-> "nil"]]
                ELSE ReturnStart(c, "ErrLogging")
    /\ UNCHANGED <<assetVars, panicked, hubVars, selVars>>
    /\ UNCHANGED restVars

\* exists, err := asset.WalletExists()
WalletExists(c) ==
    /\ ~panicked /\ pc[c] = "WalletExists"
    /\ \E r \in {"ok", "ErrWalletExists", "ErrWalletNotFound"} :
          IF r = "ok" THEN pc' = [pc EXCEPT ![c] = "OpenWallet"] /\ UNCHANGED ret
                      ELSE ReturnStart(c, r)
    /\ UNCHANGED <<assetVars, chainService, err, entry, acq, rel, starts, panicked, hubVars, selVars>>
    /\ UNCHANGED <<peers, restVars>>

\* err = asset.OpenWallet()
OpenWallet(c) ==
    /\ ~panicked /\ pc[c] = "OpenWallet"
    /\ \E ok \in BOOLEAN :
          IF ok THEN /\ walletOpen' = TRUE
                     /\ pc' = [pc EXCEPT ![c] = "OpenDB"]
                     /\ UNCHANGED ret
                ELSE /\ ReturnStart(c, "ErrLoadWallet")
                     /\ UNCHANGED walletOpen
    /\ UNCHANGED <<neutrinoDB, cl, chainClient, dbs, css, syncRPC, wg>>
    /\ UNCHANGED <<chainService, err, entry, acq, rel, starts, panicked, hubVars, selVars>>
    /\ UNCHANGED <<peers, restVars>>

\* asset.neutrinoDB, err = walletdb.Open("bdb", ...): the field is assigned
\* on both outcomes (nil on failure).
OpenDB(c) ==
    /\ ~panicked /\ pc[c] = "OpenDB"
    /\ \E ok \in (IF DbLockFree /\ FreeDb # {} THEN BOOLEAN ELSE {FALSE}) :
          IF ok THEN /\ neutrinoDB' = Least(FreeDb)
                     /\ dbs' = [dbs EXCEPT ![Least(FreeDb)].st = "open"]
                     /\ acq' = [acq EXCEPT ![c] = Append(@, <<"db", Least(FreeDb)>>)]
                     /\ pc' = [pc EXCEPT ![c] = "NewChainService"]
                     /\ UNCHANGED ret
                ELSE /\ neutrinoDB' = Nil
                     /\ ReturnStart(c, "ErrOpenDB")
                     /\ UNCHANGED <<dbs, acq>>
    /\ UNCHANGED <<cl, chainClient, walletOpen, css, syncRPC, wg>>
    /\ UNCHANGED <<chainService, err, entry, rel, starts, panicked, hubVars, selVars>>
    /\ UNCHANGED <<peers, restVars>>

\* (variant) the localhost peer given as a hint on the regression networks
PeerSelection_HintOnly(n) ==
    CASE n = "MainNet"               -> [addPeers |-> <<[host |-> "cfilters.ssgen.io", port |-> "default"]>>, connectPeers |-> <<>>]
      [] n = "TestNet3"              -> [addPeers |-> <<[host |-> "dex-test.ssgen.io", port |-> "default"]>>, connectPeers |-> <<>>]
      [] n \in {"TestNet", "SimNet"} -> [addPeers |-> <<[host |-> "localhost", port |-> "20575"]>>, connectPeers |-> <<>>]
      [] OTHER                       -> [addPeers |-> <<>>, connectPeers |-> <<>>]

\* switch asset.chainParams.Net: the addPeers / connectPeers of the config
\* (plain wire.TestNet is the regression network)
PeerSelection(n) ==
    CASE n = "MainNet"               -> [addPeers |-> <<[host |-> "cfilters.ssgen.io", port |-> "default"]>>, connectPeers |-> <<>>]
      [] n = "TestNet3"              -> [addPeers |-> <<[host |-> "dex-test.ssgen.io", port |-> "default"]>>, connectPeers |-> <<>>]
      [] n \in {"TestNet", "SimNet"} -> [addPeers |-> <<>>, connectPeers |-> <<[host |-> "localhost", port |-> "20575"]>>]
      [] OTHER                       -> [addPeers |-> <<>>, connectPeers |-> <<>>]

\* the peer switch, then chainService, err := neutrino.NewChainService(...);
\* on error bailOnWalletAndDB() runs before the return.
NewChainService(c) ==
    /\ ~panicked /\ pc[c] = "NewChainService"
    /\ peers' = [peers EXCEPT ![c] = [set |-> TRUE, cfg |-> PeerSelection(net)]]
    /\ \E ok \in (IF FreeCs # {} THEN BOOLEAN ELSE {FALSE}) :
          IF ok THEN /\ chainService' = [chainService EXCEPT ![c] = Least(FreeCs)]
                     /\ css' = [css EXCEPT ![Least(FreeCs)].st = "created"]
                     /\ acq' = [acq EXCEPT ![c] = Append(@, <<"cs", Least(FreeCs)>>)]
                     /\ pc' = [pc EXCEPT ![c] = "assign"]
                     /\ UNCHANGED err
                ELSE /\ err' = [err EXCEPT ![c] = "ErrChainService"]
                     /\ pc' = [pc EXCEPT ![c] = "bailOnWalletAndDB"]
                     /\ UNCHANGED <<chainService, css, acq>>
    /\ UNCHANGED <<neutrinoDB, cl, chainClient, walletOpen, dbs, syncRPC, wg>>
    /\ UNCHANGED <<ret, entry, rel, starts, panicked, hubVars, selVars>>
    /\ UNCHANGED restVars

\* asset.cl = chainService; asset.chainClient = chain.NewNeutrinoClient(...)
AssignClient(c) ==
    /\ ~panicked /\ pc[c] = "assign"
    /\ cl' = chainService[c]
    /\ chainClient' = chainService[c]
    /\ pc' = [pc EXCEPT ![c] = "ClientStart"]
    /\ UNCHANGED <<neutrinoDB, walletOpen, dbs, css, syncRPC, wg>>
    /\ UNCHANGED <<chainService, err, ret, entry, acq, rel, starts, panicked, hubVars, selVars>>
    /\ UNCHANGED <<peers, restVars>>

\* (variant) a Start that reports success without starting the client
ClientStart_NoStart(c) ==
    /\ ~panicked /\ pc[c] = "ClientStart"
    /\ \E ok \in BOOLEAN :
          IF ok THEN /\ css' = css
                     /\ pc' = [pc EXCEPT ![c] = "SynchronizeRPC"]
                     /\ UNCHANGED err
                ELSE /\ err' = [err EXCEPT ![c] = "ErrClientStart"]
                     /\ pc' = [pc EXCEPT ![c] = "bailOnEverything"]
                     /\ UNCHANGED css
    /\ UNCHANGED <<neutrinoDB, cl, chainClient, walletOpen, dbs, syncRPC, wg>>
    /\ UNCHANGED <<chainService, ret, entry, acq, rel, starts, panicked, hubVars, selVars>>
    /\ UNCHANGED <<peers, restVars>>

\* err = asset.chainClient.Start(); on error bailOnEverything() runs
ClientStart(c) ==
    /\ ~panicked /\ pc[c] = "ClientStart"
    /\ \E ok \in BOOLEAN :
          IF ok THEN /\ css' = [css EXCEPT ![chainClient].st = "started"]
                     /\ pc' = [pc EXCEPT ![c] = "SynchronizeRPC"]
                     /\ UNCHANGED err
                ELSE /\ err' = [err EXCEPT ![c] = "ErrClientStart"]
                     /\ pc' = [pc EXCEPT ![c] = "bailOnEverything"]
                     /\ UNCHANGED css
    /\ UNCHANGED <<neutrinoDB, cl, chainClient, walletOpen, dbs, syncRPC, wg>>
    /\ UNCHANGED <<chainService, ret, entry, acq, rel, starts, panicked, hubVars, selVars>>
    /\ UNCHANGED <<peers, restVars>>

\* (variant) the two releases in acquisition order instead of reverse order
bailOnEverything_DbFirst(c) ==
    /\ ~panicked /\ pc[c] = "bailOnEverything"
    /\ neutrinoDB # Nil
    /\ dbs' = [dbs EXCEPT ![neutrinoDB] = [st |-> "closed", closes |-> @.closes + 1]]
    /\ css' = [css EXCEPT ![chainService[c]] = [st |-> "stopped", stops |-> @.stops + 1]]
    /\ rel' = [rel EXCEPT ![c] = @ \o << <<"db", neutrinoDB>>, <<"cs", chainService[c]>> >>]
    /\ pc' = [pc EXCEPT ![c] = "returnErr"]
    /\ UNCHANGED <<neutrinoDB, cl, chainClient, walletOpen, syncRPC, wg>>
    /\ UNCHANGED <<chainService, err, ret, entry, acq, starts, panicked, hubVars, selVars>>
    /\ UNCHANGED <<peers, restVars>>

\* bailOnEverything: chainService.Stop(), then bailOnWalletAndDB()
bailOnEverything(c) ==
    /\ ~panicked /\ pc[c] = "bailOnEverything"
    /\ css' = [css EXCEPT ![chainService[c]] = [st |-> "stopped", stops |-> @.stops + 1]]
    /\ rel' = [rel EXCEPT ![c] = Append(@, <<"cs", chainService[c]>>)]
    /\ pc' = [pc EXCEPT ![c] = "bailOnWalletAndDB"]
    /\ UNCHANGED <<neutrinoDB, cl, chainClient, walletOpen, dbs, syncRPC, wg>>
    /\ UNCHANGED <<chainService, err, ret, entry, acq, starts, panicked, hubVars, selVars>>
    /\ UNCHANGED <<peers, restVars>>

\* (variant) the closure returns without closing the database
bailOnWalletAndDB_NoClose(c) ==
    /\ ~panicked /\ pc[c] = "bailOnWalletAndDB"
    /\ pc' = [pc EXCEPT ![c] = "returnErr"]
    /\ UNCHANGED <<assetVars, chainService, err, ret, entry, acq, rel, starts, panicked, hubVars, selVars>>
    /\ UNCHANGED <<peers, restVars>>

\* bailOnWalletAndDB: asset.neutrinoDB.Close() on whatever the field holds
\* now (a nil interface panics).
bailOnWalletAndDB(c) ==
    /\ ~panicked /\ pc[c] = "bailOnWalletAndDB"
    /\ IF neutrinoDB = Nil
       THEN /\ panicked' = TRUE
            /\ UNCHANGED <<dbs, rel, pc>>
       ELSE /\ dbs' = [dbs EXCEPT ![neutrinoDB] = [st |-> "closed", closes |-> @.closes + 1]]
            /\ rel' = [rel EXCEPT ![c] = Append(@, <<"db", neutrinoDB>>)]
            /\ pc' = [pc EXCEPT ![c] = "returnErr"]
            /\ UNCHANGED panicked
    /\ UNCHANGED <<neutrinoDB, cl, chainClient, walletOpen, css, syncRPC, wg>>
    /\ UNCHANGED <<chainService, err, ret, entry, acq, starts, hubVars, selVars>>
    /\ UNCHANGED <<peers, restVars>>

\* return fmt.Errorf(...) after the bail-out closure ran
returnErr(c) ==
    /\ ~panicked /\ pc[c] = "returnErr"
    /\ ReturnStart(c, err[c])
    /\ UNCHANGED <<assetVars, chainService, err, entry, acq, rel, starts, panicked, hubVars, selVars>>
    /\ UNCHANGED <<peers, restVars>>

\* asset.Internal().BTC.SynchronizeRPC(asset.chainClient); return nil
SynchronizeRPC(c) ==
    /\ ~panicked /\ pc[c] = "SynchronizeRPC"
    /\ syncRPC' = chainClient
    /\ pc' = [pc EXCEPT ![c] = "wgAdd"]
    /\ UNCHANGED <<neutrinoDB, cl, chainClient, walletOpen, dbs, css, wg>>
    /\ UNCHANGED <<chainService, err, ret, entry, acq, rel, starts, panicked, hubVars, selVars>>
    /\ UNCHANGED <<peers, restVars>>

\* the goroutines started by connect that call wg.Done() when they end:
\* connect starts none (it has no go statement after wg.Add(1))
ConnectWorkers == {}

\* back in connect: wg.Add(1); return nil
wgAdd(c) ==
    /\ ~panicked /\ pc[c] = "wgAdd"
    /\ wg' = wg + 1
    /\ ReturnStart(c, "nil")
    /\ UNCHANGED <<neutrinoDB, cl, chainClient, walletOpen, dbs, css, syncRPC>>
    /\ UNCHANGED <<chainService, err, entry, acq, rel, starts, panicked, hubVars, selVars>>
    /\ UNCHANGED <<peers, restVars>>

startWallet(c) ==
    \/ WalletExists(c) \/ OpenWallet(c) \/ OpenDB(c) \/ NewChainService(c)
    \/ AssignClient(c) \/ ClientStart(c) \/ bailOnEverything(c)
    \/ bailOnWalletAndDB(c) \/ returnErr(c) \/ SynchronizeRPC(c)

\* (variant) a cancel that closes whatever asset.neutrinoDB holds, in any state
SafelyCancelSync_Rollback(c) ==
    /\ ~panicked /\ pc[c] = "idle"
    /\ ret' = [ret EXCEPT ![c] = [op |-> "Cancel", err |-> "nil"]]
    /\ dbs' = IF neutrinoDB = Nil THEN dbs
              ELSE [dbs EXCEPT ![neutrinoDB] = [st |-> "closed", closes |-> @.closes + 1]]
    /\ UNCHANGED <<neutrinoDB, cl, chainClient, walletOpen, css, syncRPC, wg>>
    /\ UNCHANGED <<pc, chainService, err, entry, acq, rel, starts, panicked, hubVars, selVars>>
    /\ UNCHANGED <<peers, restVars>>

\* SafelyCancelSync: prints "Safe sync shutdown not implemented" and returns.
SafelyCancelSync(c) ==
    /\ ~panicked /\ pc[c] = "idle"
    /\ ret' = [ret EXCEPT ![c] = [op |-> "Cancel", err |-> "nil"]]
    /\ UNCHANGED <<assetVars, pc, chainService, err, entry, acq, rel, starts, panicked, hubVars, selVars>>
    /\ UNCHANGED <<peers, restVars>>

\* ------------------------------------------------------ notification hub
ActiveIds(reg) == {r.id : r \in {x \in reg : x.active}}

\* (variant) registration without the duplicate check
AddTxAndBlockNotificationListener_NoCheck(reg, ch, id) ==
    [reg |-> reg \cup {[id |-> id, ch |-> ch, active |-> TRUE]}, err |-> "nil"]

\* AddListener: fails with DuplicateSubscriber when id is registered and
\* active; otherwise registers the listener's channel under id.
AddTxAndBlockNotificationListener(reg, ch, id) ==
    IF id \in ActiveIds(reg)
    THEN [reg |-> reg, err |-> "DuplicateSubscriber"]
    ELSE [reg |-> reg \cup {[id |-> id, ch |-> ch, active |-> TRUE]}, err |-> "nil"]

\* (variant) removal that closes the channel of id's record whether or not
\* the record is still active
RemoveTxAndBlockNotificationListener_Reclose(reg, chs, id) ==
    IF \E x \in reg : x.id = id
    THEN LET r == CHOOSE x \in reg : x.id = id /\ (x.active \/ id \notin ActiveIds(reg))
         IN [reg   |-> (reg \ {r}) \cup {[r EXCEPT !.active = FALSE]},
             chans |-> [chs EXCEPT ![r.ch] = [@ EXCEPT !.st = "closed", !.hubCloses = @ + 1]],
             res   |-> "removed"]
    ELSE [reg |-> reg, chans |-> chs, res |-> "noop"]

\* RemoveListener: marks the active subscriber of id inactive and closes its
\* channel; without an active subscriber it is a no-op.
RemoveTxAndBlockNotificationListener(reg, chs, id) ==
    IF id \in ActiveIds(reg)
    THEN LET r == CHOOSE x \in reg : x.id = id /\ x.active
         IN [reg   |-> (reg \ {r}) \cup {[r EXCEPT !.active = FALSE]},
             chans |-> [chs EXCEPT ![r.ch] = [@ EXCEPT !.st = "closed", !.hubCloses = @ + 1]],
             res   |-> "removed"]
    ELSE [reg |-> reg, chans |-> chs, res |-> "noop"]

Range(q) == {q[i] : i \in DOMAIN q}

\* (variant) the new event goes to the front of the queue
Enqueue_Front(buf, e) ==
    IF Len(buf) < ChanCap THEN <<e>> \o buf ELSE <<e>> \o Tail(buf)

\* Bounded queue per subscriber; a full queue drops its oldest pending event.
Enqueue(buf, e) ==
    IF Len(buf) < ChanCap THEN Append(buf, e) ELSE Append(Tail(buf), e)

\* Dispatch: every active subscriber's channel gets the event.
Dispatch(reg, chs, e) ==
    [k \in ChanIds |->
        IF \E r \in reg : r.active /\ r.ch = k
        THEN [chs[k] EXCEPT !.buf = Enqueue(@, e)]
        ELSE chs[k]]

\* (variant) a worker that waits while some active subscriber's queue is full
Publish_Blocking ==
    /\ ~panicked /\ syncRPC # Nil /\ produced < MaxEvents
    /\ \A r \in registry : r.active => Len(chans[r.ch].buf) < ChanCap
    /\ produced' = produced + 1
    /\ chans' = Dispatch(registry, chans, produced + 1)
    /\ log' = [k \in ChanIds |->
                  [log[k] EXCEPT
                     !.due = IF \E r \in registry : r.active /\ r.ch = k
                             THEN @ \cup {produced + 1} ELSE @]]
    /\ UNCHANGED <<assetVars, callVars, panicked, registry, hubRet, selVars>>
    /\ UNCHANGED restVars

\* The backend worker of a running session produces the next event.
Publish ==
    /\ ~panicked /\ syncRPC # Nil /\ produced < MaxEvents
    /\ produced' = produced + 1
    /\ IF \E r \in registry : r.active /\ chans[r.ch].st = "closed"
       THEN panicked' = TRUE /\ UNCHANGED <<chans, log>>      \* send on a closed channel
       ELSE /\ chans' = Dispatch(registry, chans, produced + 1)
            /\ log' = [k \in ChanIds |->
                          [log[k] EXCEPT
                             !.due = IF \E r \in registry : r.active /\ r.ch = k
                                     THEN @ \cup {produced + 1} ELSE @,
                             !.dropped = @ \cup (Range(chans[k].buf) \ Range(chans'[k].buf))]]
            /\ UNCHANGED panicked
    /\ UNCHANGED <<assetVars, callVars, registry, hubRet, selVars>>
    /\ UNCHANGED restVars

\* Any other caller of the facade unsubscribes id.
Unsubscribe(id) ==
    /\ ~panicked
    /\ \E r \in registry : r.id = id
    /\ LET out == RemoveTxAndBlockNotificationListener(registry, chans, id)
       IN /\ registry' = out.reg
          /\ chans' = out.chans
          /\ hubRet' = [op |-> "RemoveListener", id |-> id, err |-> out.res]
    /\ UNCHANGED <<assetVars, callVars, panicked, produced, log, selVars>>
    /\ UNCHANGED restVars

\* -------------------------------------------------------------- selectors
FreeChans == {k \in ChanIds : chans[k].st = "free"}

\* the ID the selector passes to Add/RemoveTxAndBlockNotificationListener
SelID(s) ==
    IF selKind[s] = "WalletSelector" THEN AccoutSelectorID ELSE WalletAndAccountSelectorID

\* (variant) a call that does not return early on a non-nil listener field
ListenForTxNotifications_NoGuard(s) ==
    /\ ~panicked
    /\ FreeChans # {}
    /\ LET ch  == Least(FreeChans)
           out == AddTxAndBlockNotificationListener(registry, ch, SelID(s))
       IN /\ listener' = [listener EXCEPT ![s] = ch]
          /\ chans' = [chans EXCEPT ![ch].st = "open"]
          /\ registry' = out.reg
          /\ hubRet' = [op |-> "AddListener", id |-> SelID(s), err |-> out.err]
          /\ IF out.err = "nil"
             THEN /\ gpc' = [gpc EXCEPT ![s] = "select"]
                  /\ ctxDone' = [ctxDone EXCEPT ![s] = FALSE]
             ELSE UNCHANGED <<gpc, ctxDone>>
    /\ UNCHANGED <<produced, log, selKind, query>>
    /\ UNCHANGED <<assetVars, callVars, panicked>>
    /\ UNCHANGED restVars

\* ws.ListenForTxNotifications(ctx, window), up to the go statement
ListenForTxNotifications(s) ==
    /\ ~panicked
    /\ IF listener[s] # Nil
       THEN UNCHANGED <<hubVars, selVars>>
       ELSE /\ FreeChans # {}
            /\ LET ch  == Least(FreeChans)
                   out == AddTxAndBlockNotificationListener(registry, ch, SelID(s))
               IN /\ listener' = [listener EXCEPT ![s] = ch]
                  /\ chans' = [chans EXCEPT ![ch].st = "open"]
                  /\ registry' = out.reg
                  /\ hubRet' = [op |-> "AddListener", id |-> SelID(s), err |-> out.err]
                  /\ IF out.err = "nil"
                     THEN /\ gpc' = [gpc EXCEPT ![s] = "select"]
                          /\ ctxDone' = [ctxDone EXCEPT ![s] = FALSE]
                     ELSE UNCHANGED <<gpc, ctxDone>>
            /\ UNCHANGED <<produced, log, selKind, query>>
    /\ UNCHANGED <<assetVars, callVars, panicked>>
    /\ UNCHANGED restVars

\* the page cancels the context it passed to ListenForTxNotifications
CancelCtx(s) ==
    /\ ~panicked /\ gpc[s] = "select" /\ ~ctxDone[s]
    /\ ctxDone' = [ctxDone EXCEPT ![s] = TRUE]
    /\ UNCHANGED <<assetVars, callVars, panicked, hubVars, selKind, listener, gpc, query>>
    /\ UNCHANGED restVars

\* (variant) a receive that leaves the event at the head of the queue
consumerRecv_NoPop(s) ==
    /\ ~panicked /\ gpc[s] = "select"
    /\ chans[listener[s]].buf # <<>>
    /\ Len(log[listener[s]].recvd) <= MaxEvents
    /\ log' = [log EXCEPT ![listener[s]].recvd = Append(@, Head(chans[listener[s]].buf))]
    /\ UNCHANGED <<assetVars, callVars, panicked, registry, chans, hubRet, produced, selVars>>
    /\ UNCHANGED restVars

\* case n := <-ws.TxAndBlockNotifChan
consumerRecv(s) ==
    /\ ~panicked /\ gpc[s] = "select"
    /\ chans[listener[s]].buf # <<>>
    /\ chans' = [chans EXCEPT ![listener[s]].buf = Tail(@)]
    /\ log' = [log EXCEPT ![listener[s]].recvd = Append(@, Head(chans[listener[s]].buf))]
    /\ UNCHANGED <<assetVars, callVars, panicked, registry, hubRet, produced, selVars>>
    /\ UNCHANGED restVars

\* case <-ctx.Done(): RemoveTxAndBlockNotificationListener(ID)
consumerCtxDone(s) ==
    /\ ~panicked /\ gpc[s] = "select" /\ ctxDone[s]
    /\ LET out == RemoveTxAndBlockNotificationListener(registry, chans, SelID(s))
       IN /\ registry' = out.reg
          /\ chans' = out.chans
          /\ hubRet' = [op |-> "RemoveListener", id |-> SelID(s), err |-> out.res]
    /\ gpc' = [gpc EXCEPT ![s] = "close"]
    /\ UNCHANGED <<assetVars, callVars, panicked, produced, log, selKind, listener, ctxDone, query>>
    /\ UNCHANGED restVars

\* close(ws.TxAndBlockNotifChan); ws.TxAndBlockNotificationListener = nil; return
\* (closing a closed channel panics)
consumerClose(s) ==
    /\ ~panicked /\ gpc[s] = "close"
    /\ chans' = [chans EXCEPT ![listener[s]] = [@ EXCEPT !.st = "closed", !.subCloses = @ + 1]]
    /\ IF chans[listener[s]].st = "closed"
       THEN panicked' = TRUE /\ UNCHANGED <<listener, gpc>>
       ELSE /\ listener' = [listener EXCEPT ![s] = Nil]
            /\ gpc' = [gpc EXCEPT ![s] = "none"]
            /\ UNCHANGED panicked
    /\ UNCHANGED <<assetVars, callVars, registry, hubRet, produced, log, selKind, ctxDone, query>>
    /\ UNCHANGED restVars

\* ---------------------------------------------------------------- queries
\* The facade's queries (section 4.4): NotConnected and no data while the
\* wallet is Disconnected, the backend's data otherwise.
GetAccountsRaw ==
    IF SyncState = "Disconnected" THEN [res |-> Nil, err |-> "NotConnected"]
                                  ELSE [res |-> 1, err |-> "nil"]
GetAccountBalance ==
    IF SyncState = "Disconnected" THEN [res |-> Nil, err |-> "NotConnected"]
                                  ELSE [res |-> 1, err |-> "nil"]

\* ws.UpdateSelectedAccountBalance: bal, err := GetAccountBalance(...);
\* the balance is used only if err == nil
UpdateSelectedAccountBalance ==
    /\ ~panicked
    /\ LET out == GetAccountBalance
       IN query' = [op |-> "UpdateSelectedAccountBalance", st |-> SyncState,
                    err |-> out.err, read |-> IF out.err = "nil" THEN "data" ELSE "none"]
    /\ UNCHANGED <<assetVars, callVars, panicked, hubVars, selKind, listener, gpc, ctxDone>>
    /\ UNCHANGED restVars

\* (variant) wallBalance with the error checked before the result is read
wallBalance_Checked ==
    /\ ~panicked
    /\ LET out == GetAccountsRaw
       IN query' = [op |-> "wallBalance", st |-> SyncState,
                    err |-> out.err, read |-> IF out.err = "nil" THEN "data" ELSE "none"]
    /\ UNCHANGED <<assetVars, callVars, panicked, hubVars, selKind, listener, gpc, ctxDone>>
    /\ UNCHANGED restVars

\* wallBalance: accountsResult, _ := wal.GetAccountsRaw(); then
\* range accountsResult.Acc (the error is discarded; reading .Acc of a nil
\* result panics)
wallBalance ==
    /\ ~panicked
    /\ LET out == GetAccountsRaw
       IN /\ query' = [op |-> "wallBalance", st |-> SyncState, err |-> "nil",
                       read |-> IF out.res = Nil THEN "nil" ELSE "data"]
          /\ panicked' = (out.res = Nil)
    /\ UNCHANGED <<assetVars, callVars, hubVars, selKind, listener, gpc, ctxDone>>
    /\ UNCHANGED restVars

\* ---------------------------------------------------------- treasury page
nonPageVars == <<assetVars, callVars, panicked, hubVars, selVars, net, pickVars>>
IdleFetches == {f \in FetchIds : fetches[f].st = "idle"}

\* pg.FetchPolicies(): set the flag, start the fetch goroutine, reload the
\* window.  live records whether the page context is live at the call.
FetchPolicies(live) ==
    /\ IdleFetches # {}
    /\ isPolicyFetchInProgress' = TRUE
    /\ fetches' = [fetches EXCEPT ![Least(IdleFetches)] = [st |-> "running", live |-> live]]
    /\ reload' = TRUE

\* pg.OnNavigatedTo(): a fresh context, then FetchPolicies()
OnNavigatedTo ==
    /\ ~panicked /\ pageCtx # "live"
    /\ pageCtx' = "live"
    /\ FetchPolicies(TRUE)
    /\ UNCHANGED <<treasuryItems, voting, timer, nonPageVars>>

\* pg.OnNavigatedFrom(): if pg.ctxCancel != nil { pg.ctxCancel() }
OnNavigatedFrom ==
    /\ ~panicked
    /\ IF pageCtx = "none"
       THEN UNCHANGED <<pageCtx, fetches>>
       ELSE /\ pageCtx' = "cancelled"
            /\ fetches' = [f \in FetchIds |-> [fetches[f] EXCEPT !.live = FALSE]]
    /\ UNCHANGED <<isPolicyFetchInProgress, treasuryItems, voting, reload, timer, nonPageVars>>

\* pg.HandleUserInteractions() in a frame drawn for a requested reload:
\* while the flag is set, a timer is armed that reloads the window again
HandleUserInteractions ==
    /\ ~panicked /\ pageCtx = "live" /\ reload
    /\ reload' = FALSE
    /\ timer' = (timer \/ isPolicyFetchInProgress)
    /\ UNCHANGED <<pageCtx, isPolicyFetchInProgress, treasuryItems, fetches, voting, nonPageVars>>

\* time.AfterFunc(1s): pg.ParentWindow().Reload()
ReloadTimer ==
    /\ ~panicked /\ timer
    /\ timer' = FALSE
    /\ reload' = TRUE
    /\ UNCHANGED <<pageCtx, isPolicyFetchInProgress, treasuryItems, fetches, voting, nonPageVars>>

\* pg.updatePolicyPreference(item): the user confirms a vote on a displayed
\* item and the goroutine calling SetTreasuryPolicy starts
updatePolicyPreference ==
    /\ ~panicked /\ pageCtx = "live" /\ treasuryItems # Nil /\ ~voting
    /\ voting' = TRUE
    /\ UNCHANGED <<pageCtx, isPolicyFetchInProgress, treasuryItems, fetches, reload, timer, nonPageVars>>

\* the vote goroutine: on error it returns, otherwise go pg.FetchPolicies()
SetTreasuryPolicy ==
    /\ ~panicked /\ voting
    /\ voting' = FALSE
    /\ \E ok \in BOOLEAN :
          IF ok THEN FetchPolicies(pageCtx = "live")
                ELSE UNCHANGED <<isPolicyFetchInProgress, fetches, reload>>
    /\ UNCHANGED <<pageCtx, treasuryItems, timer, nonPageVars>>

\* the fetch goroutine: pg.treasuryItems = LoadPolicies(...);
\* pg.isPolicyFetchInProgress = true; pg.ParentWindow().Reload()
fetchComplete(f) ==
    /\ ~panicked /\ fetches[f].st = "running"
    /\ treasuryItems' = f
    /\ isPolicyFetchInProgress' = TRUE
    /\ reload' = TRUE
    /\ fetches' = [fetches EXCEPT ![f].st = "done"]
    /\ UNCHANGED <<pageCtx, voting, timer, nonPageVars>>

\* ----------------------------------------------- wallet/account selection
nonPickVars == <<assetVars, callVars, hubVars, selVars, net, pageVars>>

\* what GetAccountsRaw can return: an error, or the wallet's accounts in
\* backend order (each account once)
AccountLists ==
    {q \in UNION {[1..n -> AccountNums] : n \in 0..MaxAccounts} :
        \A i, j \in DOMAIN q : q[i] = q[j] => i = j}
AccountsResults ==
    {[err |-> TRUE, list |-> <<>>]} \cup {[err |-> FALSE, list |-> q] : q \in AccountLists}

\* (variant) the loop keeps the last valid account instead of returning at the first
FirstValid_Last(list, valid) ==
    LET idx == {i \in DOMAIN list : list[i] \in valid}
    IN IF idx = {} THEN Nil ELSE list[CHOOSE i \in idx : \A j \in idx : j <= i]

\* for _, account := range accounts { if ws.accountIsValid(account) {...; return nil} }
FirstValid(list, valid) ==
    LET idx == {i \in DOMAIN list : list[i] \in valid}
    IN IF idx = {} THEN Nil ELSE list[Least(idx)]

Picked(op, e, calls, list) == [op |-> op, err |-> e, calls |-> calls, list |-> list, ret |-> FALSE]

\* the body shared by both SelectFirstValidAccount methods, from
\* wallet.GetAccountsRaw() on
selectFirst(op, res) ==
    IF res.err
    THEN /\ pick' = Picked(op, "ReadError", <<>>, <<>>)
         /\ UNCHANGED selectedAccount
    ELSE LET a == FirstValid(res.list, accountIsValid)
         IN IF a = Nil
            THEN /\ pick' = Picked(op, "NoValidAccount", <<>>, res.list)
                 /\ UNCHANGED selectedAccount
            ELSE /\ selectedAccount' = a
                 /\ pick' = Picked(op, "nil", IF accountCallback THEN <<a>> ELSE <<>>, res.list)

\* ws.SelectFirstValidAccount(wallet): a WalletSelector refuses unless it
\* shows accounts; a WalletAndAccountSelector turns into an account
\* selector and takes the wallet first
SelectFirstValidAccount(w, res) ==
    /\ ~panicked
    /\ IF selKind[PickSel] = "WalletSelector"
       THEN /\ IF ~accountSelector
               THEN /\ pick' = Picked("SelectFirstValidAccount", "NotAccountSelector", <<>>, <<>>)
                    /\ UNCHANGED selectedAccount
               ELSE selectFirst("SelectFirstValidAccount", res)
            /\ UNCHANGED <<selectedWallet, accountSelector>>
       ELSE /\ accountSelector' = TRUE
            /\ selectedWallet' = w
            /\ selectFirst("SelectFirstValidAccount", res)
    /\ UNCHANGED <<accountIsValid, accountCallback, changed, dirty, panicked, nonPickVars>>

\* ws.ShowAccount(wall): SetSelectedWallet, accountSelector = true,
\* SelectFirstValidAccount(ws.selectedWallet) with its error dropped
ShowAccount(w, res) ==
    /\ ~panicked /\ selKind[PickSel] = "WalletSelector"
    /\ selectedWallet' = w
    /\ accountSelector' = TRUE
    /\ selectFirst("ShowAccount", res)
    /\ UNCHANGED <<accountIsValid, accountCallback, changed, dirty, panicked, nonPickVars>>

\* ws.AccountValidator(accountIsValid)
AccountValidator(valid) ==
    /\ ~panicked
    /\ accountIsValid' = valid
    /\ pick' = Picked("AccountValidator", "nil", <<>>, <<>>)
    /\ UNCHANGED <<selectedWallet, selectedAccount, accountSelector, accountCallback,
                   changed, dirty, panicked, nonPickVars>>

\* ws.AccountSelected(callback)
AccountSelected ==
    /\ ~panicked /\ ~accountCallback
    /\ accountCallback' = TRUE
    /\ pick' = Picked("AccountSelected", "nil", <<>>, <<>>)
    /\ UNCHANGED <<selectedWallet, selectedAccount, accountSelector, accountIsValid,
                   changed, dirty, panicked, nonPickVars>>

\* the user picks wallet w in the modal opened by Handle (wallet mode):
\* ws.changed = true; ws.SetSelectedWallet(wallet)
walletSelected(w) ==
    /\ ~panicked /\ ~accountSelector
    /\ changed' = TRUE
    /\ dirty' = (dirty \/ w # selectedWallet)
    /\ selectedWallet' = w
    /\ pick' = Picked("walletSelected", "nil", <<>>, <<>>)
    /\ UNCHANGED <<selectedAccount, accountSelector, accountIsValid, accountCallback,
                   panicked, nonPickVars>>

\* the user picks account a among the valid accounts the modal lists
\* (account mode): if ws.selectedAccount.Number != account.Number
\* { ws.changed = true }; SetSelectedAccount; callback.  With no account
\* selected the comparison dereferences nil.
accountSelected(a) ==
    /\ ~panicked /\ accountSelector /\ a \in accountIsValid
    /\ IF selectedAccount = Nil
       THEN /\ panicked' = TRUE
            /\ pick' = Picked("accountSelected", "panic", <<>>, <<>>)
            /\ UNCHANGED <<selectedAccount, changed, dirty>>
       ELSE /\ changed' = (changed \/ selectedAccount # a)
            /\ dirty' = (dirty \/ selectedAccount # a)
            /\ selectedAccount' = a
            /\ pick' = Picked("accountSelected", "nil", IF accountCallback THEN <<a>> ELSE <<>>, <<>>)
            /\ UNCHANGED panicked
    /\ UNCHANGED <<selectedWallet, accountSelector, accountIsValid, accountCallback, nonPickVars>>

\* ws.Changed(): changed := ws.changed; ws.changed = false; return changed
Changed ==
    /\ ~panicked
    /\ pick' = [Picked("Changed", "nil", <<>>, <<>>) EXCEPT !.ret = changed]
    /\ changed' = FALSE
    /\ dirty' = FALSE
    /\ UNCHANGED <<selectedWallet, selectedAccount, accountSelector, accountIsValid,
                   accountCallback, panicked, nonPickVars>>

\* ------------------------------------------------------- specifications
\* One caller drives the lifecycle; selectors, hub and backend run beside it.
Next ==
    \/ connect(MainCaller)
    \/ startWallet(MainCaller)
    \/ wgAdd(MainCaller)
    \/ SafelyCancelSync(MainCaller)
    \/ Publish
    \/ \E id \in SubscriberIDs : Unsubscribe(id)
    \/ \E s \in Selectors : ListenForTxNotifications(s)
    \/ \E s \in Selectors : CancelCtx(s)
    \/ \E s \in Selectors : consumerRecv(s)
    \/ \E s \in Selectors : consumerCtxDone(s)
    \/ \E s \in Selectors : consumerClose(s)

Spec == Init /\ [][Next]_vars

\* Several callers drive the lifecycle concurrently (hub and selectors idle).
NextConc ==
    \/ \E c \in Callers : connect(c)
    \/ \E c \in Callers : startWallet(c)
    \/ \E c \in Callers : wgAdd(c)
    \/ \E c \in Callers : SafelyCancelSync(c)

SpecConc == Init /\ [][NextConc]_vars

\* The same callers on an asset of any network.
SpecNet == InitAnyNet /\ [][NextConc]_vars

\* One caller drives the lifecycle while the selectors query the facade.
NextQuery ==
    \/ connect(MainCaller)
    \/ startWallet(MainCaller)
    \/ wgAdd(MainCaller)
    \/ SafelyCancelSync(MainCaller)
    \/ UpdateSelectedAccountBalance
    \/ wallBalance

SpecQuery == Init /\ [][NextQuery]_vars

\* The treasury page: navigation, frames, votes and policy fetches.
NextPage ==
    \/ OnNavigatedTo
    \/ OnNavigatedFrom
    \/ HandleUserInteractions
    \/ ReloadTimer
    \/ updatePolicyPreference
    \/ SetTreasuryPolicy
    \/ \E f \in FetchIds : fetchComplete(f)

SpecPage == Init /\ [][NextPage]_vars

\* One selector widget: configuration, programmatic and modal selections.
NextPick ==
    \/ \E w \in Wallets, res \in AccountsResults : SelectFirstValidAccount(w, res)
    \/ \E w \in Wallets, res \in AccountsResults : ShowAccount(w, res)
    \/ \E valid \in SUBSET AccountNums : AccountValidator(valid)
    \/ AccountSelected
    \/ \E w \in Wallets : walletSelected(w)
    \/ \E a \in AccountNums : accountSelected(a)
    \/ Changed

SpecPick == Init /\ [][NextPick]_vars

\* ================================================================ claims
Reverse(q) == [i \in 1..Len(q) |-> q[Len(q) + 1 - i]]
\* caller c is back from connect/startWallet with error e
StartReturned(c, e) == pc[c] = "idle" /\ ret[c] = [op |-> "Start", err |-> e]
\* caller c is back from connect/startWallet with some error
StartFailed(c) == pc[c] = "idle" /\ ret[c].op = "Start" /\ ret[c].err # "nil"
\* caller c is back from SafelyCancelSync
CancelReturned(c) == pc[c] = "idle" /\ ret[c].op = "Cancel"
DbsOf(q) == {q[i][2] : i \in {j \in DOMAIN q : q[j][1] = "db"}}

\* C1: when the chain-service construction fails after the database was
\* opened, the database handle this Start opened is closed by the time the
\* error is about to be returned and when it has been returned.
C1_DbClosedOnNetworkFailure ==
    \A c \in Callers :
        ((pc[c] = "returnErr" /\ err[c] = "ErrChainService") \/ StartReturned(c, "ErrChainService"))
            => /\ DbsOf(acq[c]) # {}
               /\ \A h \in DbsOf(acq[c]) : dbs[h].st = "closed"

C1_Witness ==
    \E c \in Callers :
        /\ StartReturned(c, "ErrChainService")
        /\ \E h \in HandleIds : acq[c] = << <<"db", h>> >> /\ dbs[h].st = "closed"

C3_HandleNilWhenDisconnected ==
    SyncState = "Disconnected" => (neutrinoDB = Nil /\ cl = Nil /\ chainClient = Nil)

\* C4 (as stated): a Start entered while the wallet is not Disconnected
\* does not proceed into the open sequence and returns AlreadyRunning.
C4_StartWhileRunningRejected ==
    \A c \in Callers :
        (entry[c] # "Disconnected" /\ (pc[c] # "idle" \/ ret[c].op = "Start"))
            => (pc[c] = "idle" /\ ret[c].err = "AlreadyRunning")

\* a step in which caller c runs SafelyCancelSync to its return
CancelStep(c) ==
    pc[c] = "idle" /\ pc'[c] = "idle" /\ ret[c].op # "Cancel" /\ ret'[c].op = "Cancel"

\* C5 (as stated): a Cancel entered in a state other than Disconnected
\* returns with the chain service stopped, the database closed, the channels
\* of the subscribers active at entry closed and the wallet Disconnected.
C5_CancelTearsDown ==
    [][\A c \in Callers :
          (CancelStep(c) /\ SyncState # "Disconnected")
             => /\ SyncState' = "Disconnected"
                /\ \A h \in HandleIds : css'[h].st # "started" /\ dbs'[h].st # "open"
                /\ \A r \in registry : r.active => chans'[r.ch].st = "closed"]_vars

\* C6: a SafelyCancelSync entered while the wallet is Disconnected returns
\* nil and changes nothing: asset fields, resources, hub registry, channels,
\* selectors and the release records stay as they were.
C6_CancelDisconnectedNoop ==
    [][\A c \in Callers :
          (CancelStep(c) /\ SyncState = "Disconnected")
             => /\ ret'[c].err = "nil"
                /\ SyncState' = "Disconnected"
                /\ UNCHANGED <<assetVars, hubVars, selVars, acq, rel, panicked>>]_vars

\* a Cancel has returned in the Disconnected state, after an attempt that
\* left a (closed) database handle in the field
C6_Witness ==
    \E c \in Callers : CancelReturned(c) /\ SyncState = "Disconnected" /\ neutrinoDB # Nil

\* C7 (as stated): when a Cancel entered in a running state returns, the
\* channel of every subscriber that was active when it was entered is closed
\* and holds no pending event.
C7_ChannelsClosedAfterCancel ==
    [][\A c \in Callers :
          (CancelStep(c) /\ SyncState # "Disconnected")
             => \A r \in registry :
                   r.active => (chans'[r.ch].st = "closed" /\ chans'[r.ch].buf = <<>>)]_vars

\* C8: a registration attempted while the ID is active fails with
\* DuplicateSubscriber and leaves the registry and every registered channel
\* as they were; no two active subscribers ever share an ID.
C8_DuplicateRejected ==
    /\ [](\A r1, r2 \in registry : (r1.active /\ r2.active /\ r1.id = r2.id) => r1 = r2)
    /\ [][\A s \in Selectors :
             (listener[s] = Nil /\ listener'[s] # Nil /\ SelID(s) \in ActiveIds(registry))
                => /\ hubRet' = [op |-> "AddListener", id |-> SelID(s), err |-> "DuplicateSubscriber"]
                   /\ registry' = registry
                   /\ \A r \in registry : chans'[r.ch] = chans[r.ch]]_vars

C8_Witness ==
    /\ hubRet.op = "AddListener" /\ hubRet.err = "DuplicateSubscriber"
    /\ \E s \in Selectors : listener[s] # Nil /\ gpc[s] = "none"
    /\ Cardinality({r \in registry : r.active}) = 1

\* a step that calls RemoveListener
RemoveStep ==
    /\ hubRet'.op = "RemoveListener"
    /\ (hubRet' # hubRet \/ registry' # registry
        \/ \E s \in Selectors : gpc[s] = "select" /\ gpc'[s] = "close")

\* C9: the first RemoveListener for a subscriber marks it inactive and
\* closes its channel; a call that finds no active subscriber changes
\* neither registry nor channels and fails nothing; the hub closes no
\* channel twice.
C9_RemoveIdempotent ==
    [][/\ \A k \in ChanIds : chans'[k].hubCloses <= 1
       /\ (RemoveStep /\ hubRet'.id \notin ActiveIds(registry))
             => (registry' = registry /\ chans' = chans /\ hubRet'.err = "noop" /\ ~panicked')
       /\ (RemoveStep /\ hubRet'.id \in ActiveIds(registry))
             => \E r \in registry :
                   /\ r.active /\ r.id = hubRet'.id
                   /\ [r EXCEPT !.active = FALSE] \in registry'
                   /\ chans'[r.ch].st = "closed" /\ chans'[r.ch].hubCloses = 1
                   /\ hubRet'.id \notin ActiveIds(registry')]_vars

C9_Witness ==
    /\ hubRet.op = "RemoveListener" /\ hubRet.err = "noop"
    /\ \E r \in registry : r.id = hubRet.id /\ ~r.active /\ chans[r.ch].hubCloses = 1

\* C10 (as stated): no subscriber closes its own channel, no channel is
\* closed twice, and no event is sent on a closed channel.
C10_OnlyHubCloses ==
    /\ \A k \in ChanIds : chans[k].subCloses = 0 /\ chans[k].hubCloses + chans[k].subCloses <= 1
    /\ ~panicked

\* ------------------------------------------------ delivery (C11 - C13)
Count(q, e) == Cardinality({i \in DOMAIN q : q[i] = e})
Events == 1..MaxEvents
\* times event e was handed to channel k's reader or is waiting in its queue
Deliveries(k, e) == Count(log[k].recvd, e) + Count(chans[k].buf, e)
\* channels of the subscribers active now
ActiveChans == {r.ch : r \in {x \in registry : x.active}}

C12_OrderPreserved ==
    \A k \in ChanIds : \A i, j \in DOMAIN log[k].recvd :
        i < j => log[k].recvd[i] < log[k].recvd[j]

\* a subscriber has received two events and a third is waiting behind them
C12_Witness ==
    \E k \in ChanIds : Len(log[k].recvd) >= 2 /\ chans[k].buf # <<>>

C14_GenerationIsolation ==
    [][\A c \in Callers :
          /\ (CancelStep(c) /\ SyncState # "Disconnected")
                => (SyncState' = "Disconnected" /\ ActiveChans' \cap ActiveChans = {})
          /\ (pc[c] = "wgAdd" /\ pc'[c] = "idle") => SyncState' = "Syncing"]_vars

\* C15 (as stated): right after a Cancel of a running wallet the registry
\* holds no active subscriber, and AddListener with an ID that was active
\* before the Cancel succeeds and registers the fresh channel.
C15_ReAddAfterCancel ==
    [][\A c \in Callers :
          (CancelStep(c) /\ SyncState # "Disconnected")
             => /\ ActiveIds(registry') = {}
                /\ \A id \in ActiveIds(registry) : \A ch \in FreeChans :
                      LET out == AddTxAndBlockNotificationListener(registry', ch, id)
                      IN out.err = "nil" /\ [id |-> id, ch |-> ch, active |-> TRUE] \in out.reg]_vars

\* ------------------------------------------------------- queries (C16)
\* C16 (as stated): a query made while the wallet is Disconnected fails with
\* NotConnected and hands no data to its caller, and no query dereferences a
\* result the backend did not return.
C16_QueriesFailWhenDisconnected ==
    /\ (query.op # "none" /\ query.st = "Disconnected")
          => (query.err = "NotConnected" /\ query.read = "none")
    /\ query.read # "nil"

\* ------------------------------------------- concurrency (C17 - C20)
\* C17: whatever the interleaving of SafelyCancelSync with a Start that is
\* rolling back, every database handle is closed at most once and every
\* chain service is stopped at most once.
C17_ReleaseAtMostOnce ==
    \A h \in HandleIds : dbs[h].closes <= 1 /\ css[h].stops <= 1

\* a Cancel by one caller has returned while the other caller's failing
\* Start has stopped its chain service and closed its database
C17_Witness ==
    \E c, d \in Callers :
        /\ c # d /\ pc[c] = "returnErr" /\ Len(rel[c]) = 2
        /\ CancelReturned(d)
        /\ \E h \in HandleIds : dbs[h].closes = 1 /\ css[rel[c][1][2]].stops = 1

\* C18 (as stated): of the Starts racing from Disconnected only one is ever
\* inside the open sequence; a Start entered while another one is inside
\* returns AlreadyRunning and has opened neither database nor chain service.
C18_SingleLifecycleToken ==
    /\ Cardinality({c \in Callers : pc[c] # "idle"}) <= 1
    /\ \A c \in Callers :
          (entry[c] = "Opening" /\ pc[c] = "idle" /\ ret[c].op = "Start")
             => (ret[c].err = "AlreadyRunning" /\ acq[c] = <<>>)

\* C19 (as stated): once a Cancel has returned, with nil or with
\* CancellationTimeout, the wallet is Disconnected, no database handle is
\* open and no chain service is left created or started.
C19_CancelAlwaysReleases ==
    \A c \in Callers :
        CancelReturned(c)
            => /\ ret[c].err \in {"nil", "CancellationTimeout"}
               /\ SyncState = "Disconnected"
               /\ \A h \in HandleIds : dbs[h].st # "open" /\ css[h].st \notin {"created", "started"}

\* C20 (as stated): a Start that returned StorageUnavailable or
\* NetworkInitFailed has opened the database at most once and created the
\* chain service at most once, has left the wallet Disconnected, and is
\* followed by no attempt the caller did not ask for.
C20_FailedStartNoRetry ==
    \A c \in Callers :
        (StartFailed(c) /\ ErrKind(ret[c].err) \in {"StorageUnavailable", "NetworkInitFailed"})
            => /\ Cardinality({i \in DOMAIN acq[c] : acq[c][i][1] = "db"}) <= 1
               /\ Cardinality({i \in DOMAIN acq[c] : acq[c][i][1] = "cs"}) <= 1
               /\ \A d \in Callers : pc[d] = "idle"
               /\ SyncState = "Disconnected"

\* --------------------------------------------- state machine (C21)
\* the sync-state changes the specification allows
AllowedTransitions ==
    { <<"Disconnected", "Opening">>, <<"Opening", "Syncing">>,
      <<"Opening", "Disconnected">>, <<"Syncing", "Synced">>, <<"Synced", "Syncing">>,
      <<"Opening", "Cancelling">>, <<"Syncing", "Cancelling">>, <<"Synced", "Cancelling">>,
      <<"Cancelling", "Disconnected">> }
\* the neutrino clients that are running
Workers == {h \in HandleIds : css[h].st = "started"}

C23_FlagOnlyWhileFetching ==
    isPolicyFetchInProgress => \E f \in FetchIds : fetches[f].st = "running"

\* the fetches started under the page context that is still live
LiveFetches == {f \in FetchIds : fetches[f].st # "idle" /\ fetches[f].live}

\* C27 (as stated): once no fetch is running, the items displayed are those
\* of the most recently started fetch of the live page; and a fetch that
\* completes after its page context was cancelled changes neither the page
\* state nor the reload request.
C27_FetchResultsNeverRegress ==
    /\ []((LiveFetches # {} /\ \A f \in FetchIds : fetches[f].st # "running")
            => \A f \in LiveFetches : f <= treasuryItems)
    /\ [][\A f \in FetchIds :
             (fetches[f].st = "running" /\ fetches'[f].st = "done" /\ ~fetches[f].live)
                => UNCHANGED <<treasuryItems, isPolicyFetchInProgress, reload>>]_vars

\* ------------------------------------------- selector listeners (C24 - C26)
\* C24: while a selector's consumer goroutine is live, further calls of
\* ListenForTxNotifications change nothing: the listener field keeps its
\* channel (so the call made no listener and registered nothing) and the
\* consumer goroutine stays the one that was started; at most one listener
\* is registered per selector ID and no channel is registered twice.
C24_ListenIdempotentWhileLive ==
    /\ [](\A s \in Selectors :
            /\ Cardinality({r \in registry : r.active /\ r.id = SelID(s)}) <= 1
            /\ listener[s] # Nil => Cardinality({r \in registry : r.ch = listener[s]}) <= 1)
    /\ [][\A s \in Selectors :
             (gpc[s] = "select" /\ listener[s] # Nil)
                => /\ listener'[s] = listener[s]
                   /\ gpc'[s] \in {"select", "close"}]_vars
C24_Witness ==
    \E s \in Selectors :
        /\ gpc[s] = "select" /\ listener[s] \in ActiveChans
        /\ FreeChans # {} /\ ENABLED ListenForTxNotifications(s)

\* C25 (as stated): outside the consumer's own teardown, a selector's
\* listener field is non-nil only if its listener is registered with the
\* hub; a selector whose registration failed has a nil field again, so the
\* next call registers anew.
C25_FieldNonNilOnlyIfRegistered ==
    \A s \in Selectors :
        (listener[s] # Nil /\ gpc[s] = "none")
            => \E r \in registry : r.active /\ r.ch = listener[s]

\* C26 (as stated): the consumer's step after the removal of its listener
\* resets the listener field to nil and ends the goroutine, and the
\* selector's ID is then free for a new registration.
C26_CtxCancelTearsDown ==
    [][\A s \in Selectors :
          (gpc[s] = "close" /\ chans'[listener[s]].subCloses # chans[listener[s]].subCloses)
             => /\ ~panicked'
                /\ listener'[s] = Nil /\ gpc'[s] = "none"
                /\ SelID(s) \notin ActiveIds(registry')]_vars

\* ------------------------------------------------------- WaitGroup (C28)
\* C28 (as stated): the WaitGroup counter equals the number of workers that
\* connect started and that have still to call Done, so every increment is
\* matched by one worker's Done.
C28_EveryAddHasAWorker == wg = Cardinality(ConnectWorkers)

C30_ChangedIffSelectionChanged ==
    [][pick'.op = "Changed" => pick'.ret = dirty]_vars

====
